---------------------------- MODULE Spec2Model ----------------------------
(***************************************************************************)
(* Pipe & Hollow Section Weight Calculator (src/app.py).                   *)
(*                                                                         *)
(* The geometry functions are modelled over exact real arithmetic: every   *)
(* number the calculators produce from rational inputs lies in a field     *)
(* Q(sqrt n), so a Python float is modelled by the real number             *)
(* (p + q*sqrt(n))/d it approximates.  IEEE-754 rounding is abstracted.    *)
(***************************************************************************)
EXTENDS Integers, Sequences, FiniteSets, TLC

(***************************************************************************)
(* Exact arithmetic in Q(sqrt n).                                          *)
(* A number is [p, q, n, d] and denotes (p + q*sqrt(n))/d, in normal form:  *)
(* d > 0, n squarefree, n = 1 iff q = 0, gcd(p, q, d) = 1.  Equality of    *)
(* records is then equality of the numbers.                                *)
(***************************************************************************)
Abs(i) == IF i < 0 THEN -i ELSE i

RECURSIVE GCD(_, _)
GCD(i, j) == IF j = 0 THEN i ELSE GCD(j, i % j)

\* floor of the square root of m >= 0, by bisection on lo..hi
RECURSIVE IsqrtIn(_, _, _)
IsqrtIn(m, lo, hi) ==
    IF lo >= hi THEN lo
    ELSE LET mid == (lo + hi + 1) \div 2
         IN  IF mid * mid <= m THEN IsqrtIn(m, mid, hi) ELSE IsqrtIn(m, lo, mid - 1)

Isqrt(m) == IsqrtIn(m, 0, IF m < 46340 THEN m ELSE 46340)

\* largest k with k*k dividing m (m >= 1)
SqPart(m) ==
    LET S == {k \in 1..Isqrt(m) : m % (k * k) = 0}
    IN  CHOOSE k \in S : \A j \in S : j <= k

\* normal form of (p + q*sqrt(n))/d for squarefree n >= 1 and d # 0
Norm(p, q, n, d) ==
    LET p1 == IF n = 1 THEN p + q ELSE p
        q1 == IF n = 1 THEN 0 ELSE q
        sg == IF d < 0 THEN -1 ELSE 1
        g  == GCD(GCD(Abs(p1), Abs(q1)), Abs(d))
    IN  [p |-> (sg * p1) \div g, q |-> (sg * q1) \div g,
         n |-> IF q1 = 0 THEN 1 ELSE n, d |-> (sg * d) \div g]

Rat(i, j) == Norm(i, 0, 1, j)
Int2R(i) == Rat(i, 1)
Zero == Int2R(0)

\* the radicand of a sum or product (operands share it, or one is rational)
Rad(x, y) == IF x.q # 0 THEN x.n ELSE y.n

Add(x, y) == Norm(x.p * y.d + y.p * x.d, x.q * y.d + y.q * x.d, Rad(x, y), x.d * y.d)
Neg(x) == [x EXCEPT !.p = -x.p, !.q = -x.q]
Sub(x, y) == Add(x, Neg(y))
Mul(x, y) ==
    LET n == Rad(x, y)
    IN  Norm(x.p * y.p + x.q * y.q * n, x.p * y.q + x.q * y.p, n, x.d * y.d)
\* 1/x by the conjugate: d*(p - q*sqrt n) / (p^2 - q^2*n)
Inv(x) ==
    IF x.q = 0 THEN Norm(x.d, 0, 1, x.p)
    ELSE Norm(x.d * x.p, -(x.d * x.q), x.n, x.p * x.p - x.q * x.q * x.n)
Div(x, y) == Mul(x, Inv(y))
Sq(x) == Mul(x, x)

SignInt(i) == IF i > 0 THEN 1 ELSE IF i < 0 THEN -1 ELSE 0
\* the sign of a/b - c/d for a, c >= 0 and b, d > 0, found from the integer
\* parts and then from the reciprocals of the fractional parts, so that no
\* product is formed
RECURSIVE CmpFrac(_, _, _, _)
CmpFrac(a, b, c, d) ==
    LET qa == a \div b
        qc == c \div d
        ra == a % b
        rc == c % d
    IN  IF qa # qc THEN SignInt(qa - qc)
        ELSE IF ra = 0 \/ rc = 0 THEN SignInt(ra - rc)
        ELSE CmpFrac(d, rc, b, ra)

\* the sign of p + q*sqrt(n); p and q are divided by their gcd, and
\* p^2 against q^2 * n is decided as p/|q| against |q|*n/p
Sign(x) ==
    IF x.q = 0 THEN SignInt(x.p)
    ELSE IF x.p >= 0 /\ x.q > 0 THEN 1
    ELSE IF x.p <= 0 /\ x.q < 0 THEN -1
    ELSE LET g == GCD(Abs(x.p), Abs(x.q))
             p == x.p \div g
             q == x.q \div g
         IN  IF p > 0 THEN CmpFrac(p, -q, (-q) * x.n, p)
             ELSE CmpFrac(q * x.n, -p, -p, q)

Lt(x, y) == Sign(Sub(x, y)) < 0
Le(x, y) == Sign(Sub(x, y)) <= 0
Gt(x, y) == Lt(y, x)
Ge(x, y) == Le(y, x)

\* math.sqrt of a rational x = p/d > 0 in lowest terms: with p = kp^2 * mp and
\* d = kd^2 * md (mp, md squarefree), sqrt(p/d) = kp*sqrt(mp*md) / (kd*md)
Sqrt(x) ==
    IF x.p = 0 THEN Zero
    ELSE LET kp == SqPart(x.p)
             kd == SqPart(x.d)
             mp == x.p \div (kp * kp)
             md == x.d \div (kd * kd)
         IN  Norm(0, kp, mp * md, kd * md)

(***************************************************************************)
(* Numbers that involve the library's pi (math.pi, taken as the real       *)
(* number pi).  [c, k, m] denotes c + k*pi + m/pi with c, k, m in          *)
(* Q(sqrt n); pi is transcendental, so equality of records is equality of  *)
(* the numbers.                                                            *)
(***************************************************************************)
PiVal(c, k, m) == [c |-> c, k |-> k, m |-> m]
PiOfReal(x) == PiVal(x, Zero, Zero)
MathPi == PiVal(Zero, Int2R(1), Zero)

PiAdd(x, y) == PiVal(Add(x.c, y.c), Add(x.k, y.k), Add(x.m, y.m))
PiSub(x, y) == PiVal(Sub(x.c, y.c), Sub(x.k, y.k), Sub(x.m, y.m))
\* x * s for s in Q(sqrt n)
PiScale(x, s) == PiVal(Mul(x.c, s), Mul(x.k, s), Mul(x.m, s))
\* x / pi for x = c + k*pi
PiDivPi(x) == PiVal(x.k, Zero, x.c)

\* math.radians(deg) = deg * math.pi / 180
Radians(deg) == PiScale(MathPi, Div(deg, Int2R(180)))

\* math.sin at the angles whose sine lies in Q(sqrt 3)
Sin(x) ==
    CASE x = Radians(Int2R(0)) -> Zero
      [] x = Radians(Int2R(30)) -> Rat(1, 2)
      [] x = Radians(Int2R(60)) -> Div(Sqrt(Int2R(3)), Int2R(2))
      [] x = Radians(Int2R(90)) -> Int2R(1)

(***************************************************************************)
(* APP CONSTANTS                                                           *)
(***************************************************************************)
PI == Rat(22, 7)
DENSITY_MS == 7850

\* 1e-6, the mm^2 -> m^2 conversion of every calculator
MM2_TO_M2 == Rat(1, 1000000)

\* the conversion written with 1e-3
Weight_1e3(area_mm2, density) == Mul(area_mm2, Mul(Rat(1, 1000), density))

\* area_mm2 * 1e-6 * density.  The two scalar factors are combined first so
\* that the intermediate stays within TLC's 32-bit integers; in exact
\* arithmetic the product is the same.
Weight(area_mm2, density) == Mul(area_mm2, Mul(MM2_TO_M2, density))

\* math.sin(math.radians(60)): the library's sine of 60 degrees, sqrt(3)/2
Sin60 == Sin(Radians(Int2R(60)))

(***************************************************************************)
(* GEOMETRY / WEIGHT FUNCTIONS                                             *)
(* Each returns the tuple the Python function returns.                     *)
(***************************************************************************)

\* weight_circle with the degeneracy test written ID <= 0 (a solid bar rejected)
weight_circle_solid_rejected(OD, thickness, density) ==
    LET ID == Sub(OD, Mul(Int2R(2), thickness))
        area_mm2 == Mul(Div(PI, Int2R(4)), Sub(Sq(OD), Sq(ID)))
        weight == Weight(area_mm2, density)
    IN  IF Le(ID, Zero) THEN <<Zero, Zero, Zero>>
        ELSE <<weight, area_mm2, ID>>

weight_circle(OD, thickness, density) ==
    LET ID == Sub(OD, Mul(Int2R(2), thickness))
        area_mm2 == Mul(Div(PI, Int2R(4)), Sub(Sq(OD), Sq(ID)))
        weight == Weight(area_mm2, density)
    IN  IF Lt(ID, Zero) THEN <<Zero, Zero, Zero>>
        ELSE <<weight, area_mm2, ID>>

\* weight_square returning the raw subtraction without the test on ID
weight_square_unclamped(OD, thickness, density) ==
    LET ID == Sub(OD, Mul(Int2R(2), thickness))
        area_mm2 == Sub(Sq(OD), Sq(ID))
        weight == Weight(area_mm2, density)
    IN  <<weight, area_mm2>>

\* weight_square with the wall subtracted on one side only
weight_square_single_wall(OD, thickness, density) ==
    LET ID == Sub(OD, thickness)
        area_mm2 == Sub(Sq(OD), Sq(ID))
        weight == Weight(area_mm2, density)
    IN  IF Lt(ID, Zero) THEN <<Zero, Zero>>
        ELSE <<weight, area_mm2>>

weight_square(OD, thickness, density) ==
    LET ID == Sub(OD, Mul(Int2R(2), thickness))
        area_mm2 == Sub(Sq(OD), Sq(ID))
        weight == Weight(area_mm2, density)
    IN  IF Lt(ID, Zero) THEN <<Zero, Zero>>
        ELSE <<weight, area_mm2>>

\* weight_rectangle testing the inner length only
weight_rectangle_length_only(L, W, thickness, density) ==
    LET ID_L == Sub(L, Mul(Int2R(2), thickness))
        ID_W == Sub(W, Mul(Int2R(2), thickness))
        area_mm2 == Sub(Mul(L, W), Mul(ID_L, ID_W))
        weight == Weight(area_mm2, density)
    IN  IF Lt(ID_L, Zero) THEN <<Zero, Zero>>
        ELSE <<weight, area_mm2>>

weight_rectangle(L, W, thickness, density) ==
    LET ID_L == Sub(L, Mul(Int2R(2), thickness))
        ID_W == Sub(W, Mul(Int2R(2), thickness))
        area_mm2 == Sub(Mul(L, W), Mul(ID_L, ID_W))
        weight == Weight(area_mm2, density)
    IN  IF Lt(ID_L, Zero) \/ Lt(ID_W, Zero) THEN <<Zero, Zero>>
        ELSE <<weight, area_mm2>>

\* weight_oval rejecting only when both inner semi-axes are negative
weight_oval_both_axes(major, minor, thickness, density) ==
    LET a_o == Div(major, Int2R(2))
        b_o == Div(minor, Int2R(2))
        a_i == Sub(a_o, thickness)
        b_i == Sub(b_o, thickness)
        area_mm2 == Sub(Mul(Mul(PI, a_o), b_o), Mul(Mul(PI, a_i), b_i))
        weight == Weight(area_mm2, density)
    IN  IF Lt(a_i, Zero) /\ Lt(b_i, Zero) THEN <<Zero, Zero>>
        ELSE <<weight, area_mm2>>

weight_oval(major, minor, thickness, density) ==
    LET a_o == Div(major, Int2R(2))
        b_o == Div(minor, Int2R(2))
        a_i == Sub(a_o, thickness)
        b_i == Sub(b_o, thickness)
        area_mm2 == Sub(Mul(Mul(PI, a_o), b_o), Mul(Mul(PI, a_i), b_i))
        weight == Weight(area_mm2, density)
    IN  IF Lt(a_i, Zero) \/ Lt(b_i, Zero) THEN <<Zero, Zero>>
        ELSE <<weight, area_mm2>>

\* weight_triangle_equilateral with the inner side side - thickness/sin(60)
weight_triangle_equilateral_half_offset(side, thickness, density) ==
    LET s_o == side
        s_i == Sub(side, Div(thickness, Sin60))
        outer_area == Mul(Div(Sqrt(Int2R(3)), Int2R(4)), Sq(s_o))
        inner_area == Mul(Div(Sqrt(Int2R(3)), Int2R(4)), Sq(s_i))
        area_mm2 == Sub(outer_area, inner_area)
        weight == Weight(area_mm2, density)
    IN  IF Lt(s_i, Zero) THEN <<Zero, Zero>>
        ELSE <<weight, area_mm2>>

weight_triangle_equilateral(side, thickness, density) ==
    LET s_o == side
        s_i == Sub(side, Div(Mul(Int2R(2), thickness), Sin60))
        outer_area == Mul(Div(Sqrt(Int2R(3)), Int2R(4)), Sq(s_o))
        inner_area == Mul(Div(Sqrt(Int2R(3)), Int2R(4)), Sq(s_i))
        area_mm2 == Sub(outer_area, inner_area)
        weight == Weight(area_mm2, density)
    IN  IF Lt(s_i, Zero) THEN <<Zero, Zero>>
        ELSE <<weight, area_mm2>>

\* weight_triangle_general with three of its lines open to variation:
\*   sq      the exponent of s in the wall area is 2 (else 1)
\*   strict  thickness = r is accepted (thickness > r rejects)
\*   keep_r  the thickness branch returns r (else 0.0)
TriangleGeneralBody(a, b, c, thickness, density, sq, strict, keep_r) ==
    IF Le(Add(a, b), c) \/ Le(Add(b, c), a) \/ Le(Add(c, a), b)
    THEN <<Zero, Zero, Zero>>
    ELSE
      LET P == Add(Add(a, b), c)
          s == Div(P, Int2R(2))
          A0_sq == Mul(Mul(Mul(s, Sub(s, a)), Sub(s, b)), Sub(s, c))
      IN  IF Le(A0_sq, Zero) THEN <<Zero, Zero, Zero>>
          ELSE
            LET A0 == Sqrt(A0_sq)
                r == Div(A0, s)
                wall_area == Sub(Mul(thickness, P),
                                 Mul(Sq(thickness),
                                     Div(IF sq THEN Sq(s) ELSE s, A0)))
                weight == Weight(wall_area, density)
            IN  IF (IF strict THEN Gt(thickness, r) ELSE Ge(thickness, r))
                THEN <<Zero, Zero, IF keep_r THEN r ELSE Zero>>
                ELSE IF Le(wall_area, Zero) THEN <<Zero, Zero, r>>
                ELSE <<weight, wall_area, r>>

\* wall area written with s/A0 for s^2/A0
weight_triangle_general_s_not_squared(a, b, c, thickness, density) ==
    TriangleGeneralBody(a, b, c, thickness, density, FALSE, FALSE, TRUE)

\* thickness = r accepted
weight_triangle_general_r_accepted(a, b, c, thickness, density) ==
    TriangleGeneralBody(a, b, c, thickness, density, TRUE, TRUE, TRUE)

\* the thickness branch returning (0.0, 0.0, 0.0)
weight_triangle_general_r_dropped(a, b, c, thickness, density) ==
    TriangleGeneralBody(a, b, c, thickness, density, TRUE, FALSE, FALSE)

\* the wall area with its two terms exchanged: t^2 * (s^2 / A0) - t*P
weight_triangle_general_wall_negated(a, b, c, thickness, density) ==
    IF Le(Add(a, b), c) \/ Le(Add(b, c), a) \/ Le(Add(c, a), b)
    THEN <<Zero, Zero, Zero>>
    ELSE
      LET P == Add(Add(a, b), c)
          s == Div(P, Int2R(2))
          A0_sq == Mul(Mul(Mul(s, Sub(s, a)), Sub(s, b)), Sub(s, c))
      IN  IF Le(A0_sq, Zero) THEN <<Zero, Zero, Zero>>
          ELSE
            LET A0 == Sqrt(A0_sq)
                r == Div(A0, s)
                wall_area == Sub(Mul(Sq(thickness), Div(Sq(s), A0)),
                                 Mul(thickness, P))
                weight == Weight(wall_area, density)
            IN  IF Ge(thickness, r) THEN <<Zero, Zero, r>>
                ELSE IF Le(wall_area, Zero) THEN <<Zero, Zero, r>>
                ELSE <<weight, wall_area, r>>

weight_triangle_general(a, b, c, thickness, density) ==
    IF Le(Add(a, b), c) \/ Le(Add(b, c), a) \/ Le(Add(c, a), b)
    THEN <<Zero, Zero, Zero>>
    ELSE
      LET P == Add(Add(a, b), c)
          s == Div(P, Int2R(2))
          A0_sq == Mul(Mul(Mul(s, Sub(s, a)), Sub(s, b)), Sub(s, c))
      IN  IF Le(A0_sq, Zero) THEN <<Zero, Zero, Zero>>
          ELSE
            LET A0 == Sqrt(A0_sq)
                r == Div(A0, s)
                wall_area == Sub(Mul(thickness, P),
                                 Mul(Sq(thickness), Div(Sq(s), A0)))
                weight == Weight(wall_area, density)
            IN  IF Ge(thickness, r) THEN <<Zero, Zero, r>>
                ELSE IF Le(wall_area, Zero) THEN <<Zero, Zero, r>>
                ELSE <<weight, wall_area, r>>

\* mother_od_from_perimeter with the Rectangle perimeter written L + W
mother_od_from_perimeter_half_rectangle(shape_, inputs) ==
    LET P == IF shape_ = "Square" THEN Mul(Int2R(4), inputs["OD"])
             ELSE IF shape_ = "Rectangle" THEN Add(inputs["L"], inputs["W"])
             ELSE IF shape_ = "Oval"
                  THEN LET a == Div(inputs["major"], Int2R(2))
                           b == Div(inputs["minor"], Int2R(2))
                       IN  Mul(PI, Sub(Mul(Int2R(3), Add(a, b)),
                                       Sqrt(Mul(Add(Mul(Int2R(3), a), b),
                                                Add(a, Mul(Int2R(3), b))))))
             ELSE IF "side" \in DOMAIN inputs
                  THEN Mul(Int2R(3), inputs["side"])
             ELSE Add(Add(inputs["a"], inputs["b"]), inputs["c"])
    IN  IF shape_ \in {"Square", "Rectangle", "Oval", "Triangle"}
        THEN Div(P, PI)
        ELSE Zero

\* Mother Pipe OD from PERIMETER.  inputs is the dict passed by the caller,
\* a function from keys to numbers (the "mode" entry is not read).
mother_od_from_perimeter(shape_, inputs) ==
    LET P == IF shape_ = "Square" THEN Mul(Int2R(4), inputs["OD"])
             ELSE IF shape_ = "Rectangle"
                  THEN Mul(Int2R(2), Add(inputs["L"], inputs["W"]))
             ELSE IF shape_ = "Oval"
                  THEN LET a == Div(inputs["major"], Int2R(2))
                           b == Div(inputs["minor"], Int2R(2))
                       IN  Mul(PI, Sub(Mul(Int2R(3), Add(a, b)),
                                       Sqrt(Mul(Add(Mul(Int2R(3), a), b),
                                                Add(a, Mul(Int2R(3), b))))))
             ELSE IF "side" \in DOMAIN inputs
                  THEN Mul(Int2R(3), inputs["side"])
             ELSE Add(Add(inputs["a"], inputs["b"]), inputs["c"])
    IN  IF shape_ \in {"Square", "Rectangle", "Oval", "Triangle"}
        THEN Div(P, PI)
        ELSE Zero

(***************************************************************************)
(* GEOMETRY / WEIGHT FUNCTIONS of the earlier revision (src/dummy.py).     *)
(* They use math.pi; every weight and area is a number c + k*pi + m/pi.    *)
(***************************************************************************)
PiZero == PiOfReal(Zero)

\* area_mm2 * 1e-6 * density
PiWeight(area_mm2, density) == PiScale(area_mm2, Mul(MM2_TO_M2, density))

dummy_weight_circle(OD, thickness, density) ==
    LET ID == Sub(OD, Mul(Int2R(2), thickness))
        area_mm2 == PiScale(PiScale(MathPi, Rat(1, 4)), Sub(Sq(OD), Sq(ID)))
        weight == PiWeight(area_mm2, density)
    IN  IF Lt(ID, Zero) THEN <<PiZero, PiZero, Zero>>
        ELSE <<weight, area_mm2, ID>>

dummy_weight_square(OD, thickness, density) ==
    LET ID == Sub(OD, Mul(Int2R(2), thickness))
        area_mm2 == PiOfReal(Sub(Sq(OD), Sq(ID)))
        weight == PiWeight(area_mm2, density)
    IN  IF Lt(ID, Zero) THEN <<PiZero, PiZero>>
        ELSE <<weight, area_mm2>>

dummy_weight_rectangle(L, W, thickness, density) ==
    LET ID_L == Sub(L, Mul(Int2R(2), thickness))
        ID_W == Sub(W, Mul(Int2R(2), thickness))
        area_mm2 == PiOfReal(Sub(Mul(L, W), Mul(ID_L, ID_W)))
        weight == PiWeight(area_mm2, density)
    IN  IF Lt(ID_L, Zero) \/ Lt(ID_W, Zero) THEN <<PiZero, PiZero>>
        ELSE <<weight, area_mm2>>

dummy_weight_oval(major, minor, thickness, density) ==
    LET a_o == Div(major, Int2R(2))
        b_o == Div(minor, Int2R(2))
        a_i == Sub(a_o, thickness)
        b_i == Sub(b_o, thickness)
        area_mm2 == PiSub(PiScale(PiScale(MathPi, a_o), b_o),
                          PiScale(PiScale(MathPi, a_i), b_i))
        weight == PiWeight(area_mm2, density)
    IN  IF Lt(a_i, Zero) \/ Lt(b_i, Zero) THEN <<PiZero, PiZero>>
        ELSE <<weight, area_mm2>>

weight_triangle(side, thickness, density) ==
    LET s_o == side
        s_i == Sub(side, Div(Mul(Int2R(2), thickness), Sin(Radians(Int2R(60)))))
        outer_area == Mul(Div(Sqrt(Int2R(3)), Int2R(4)), Sq(s_o))
        inner_area == Mul(Div(Sqrt(Int2R(3)), Int2R(4)), Sq(s_i))
        area_mm2 == PiOfReal(Sub(outer_area, inner_area))
        weight == PiWeight(area_mm2, density)
    IN  IF Lt(s_i, Zero) THEN <<PiZero, PiZero>>
        ELSE <<weight, area_mm2>>

\* mother_pipe_diameter without the "+ thickness" term
mother_pipe_diameter_thin(area_mm2, thickness) ==
    IF Le(thickness, Zero) THEN PiZero
    ELSE PiDivPi(PiScale(area_mm2, Inv(thickness)))

\* From A = pi * t * (OD - t)  =>  OD = A/(pi t) + t
mother_pipe_diameter(area_mm2, thickness) ==
    IF Le(thickness, Zero) THEN PiZero
    ELSE PiAdd(PiDivPi(PiScale(area_mm2, Inv(thickness))), PiOfReal(thickness))

(***************************************************************************)
(* Bounds of the checked input space (lengths in half millimetres).        *)
(***************************************************************************)
MaxOD2 == 50
MaxRect2 == 8
MaxSide2 == 10
MaxThk2 == 4

\* -0.5, 0, 0.5, ..., m/2 mm: non-positive values included
Halves(m) == {Rat(k, 2) : k \in (-1)..m}
Thicknesses == Halves(MaxThk2) \cup {Rat(1, 10)}
Densities == {Zero, Int2R(1000), Int2R(DENSITY_MS)}

Calls ==
    [fn : {"weight_circle", "weight_square", "weight_triangle_equilateral"},
     args : Halves(MaxOD2) \X Thicknesses \X Densities]
    \cup
    [fn : {"weight_rectangle", "weight_oval"},
     args : Halves(MaxRect2) \X Halves(MaxRect2) \X Thicknesses \X Densities]
    \cup
    [fn : {"weight_triangle_general"},
     args : Halves(MaxSide2) \X Halves(MaxSide2) \X Halves(MaxSide2)
            \X Thicknesses \X Densities]

NoRet == <<>>
NoCall == [fn |-> "none", args |-> <<>>]

(***************************************************************************)
(* The Streamlit session of app.py.                                        *)
(*   shape, tri_mode, inp, thk_input, den_input : the widget state.  inp   *)
(*     maps the keys of the dimension widgets rendered for the selected    *)
(*     shape to their values; a widget that is not rendered loses its      *)
(*     state and is rendered again with its default.                       *)
(*   last_result : st.session_state.last_result (None or a result record)  *)
(*   shown : the message the Calculate block wrote in the last script run  *)
(*   call, ret : the calculator call made in the last script run and the   *)
(*     tuple it returned (locals of the run: a run without a click on      *)
(*     Calculate makes no call and shows no message)                       *)
(*   saved : st.session_state.saved, a list of records per shape           *)
(*   current : st.session_state current_inputs, current_thickness and      *)
(*     current_density, with the values .get() gives before any Load       *)
(*   sync : the handler (save or delete) that wrote the saved records in   *)
(*     the last script run, and the outcome of its GitHub push.  The local *)
(*     mirror file is read at session boot only and is no part of the      *)
(*     state: write_local succeeds or its exception is swallowed.          *)
(*   result : the dict `result` Calculate built in the last script run of  *)
(*     dummy.py (a local of the run; app.py has no such dict)              *)
(***************************************************************************)
VARIABLES call, ret, shape, tri_mode, inp, thk_input, den_input, last_result, shown,
          saved, current, sync, result

vars == <<call, ret, shape, tri_mode, inp, thk_input, den_input, last_result, shown,
          saved, current, sync, result>>
uivars == <<shape, tri_mode, inp, thk_input, den_input, last_result, shown,
            saved, current, sync, result>>

SHAPES == {"Circle", "Square", "Rectangle", "Oval", "Triangle"}
TRI_MODES == {"Equilateral", "Custom"}

None == [shape |-> "None"]
NoMsg == [kind |-> "none", value |-> Zero]

\* empty_saved()
empty_saved == [s \in SHAPES |-> <<>>]

\* st.session_state.get("current_inputs", {}), .get("current_thickness", 1.0)
\* and .get("current_density", DENSITY_MS) when nothing has been loaded
NoCurrent == [inputs |-> <<>>, thickness |-> Int2R(1), density |-> Int2R(DENSITY_MS)]

NoSync == [by |-> "none", github |-> "none"]

\* The last script run rendered the main area of the page (the form, the
\* Calculate button and the Save panel).  gh_put_file_with_commit catches no
\* exception of requests: one raised in the sidebar's delete handler ends the
\* script run there.
PageRendered == ~(sync.by = "delete" /\ sync.github = "raised")

\* number_input(..., value=float(loaded_inputs.get(key, default))) with no
\* loaded inputs: the default of each dimension widget
DefaultInputs(s, m) ==
    IF s = "Circle" THEN [circle_OD |-> Int2R(25)]
    ELSE IF s = "Square" THEN [square_OD |-> Int2R(25)]
    ELSE IF s = "Rectangle" THEN [rect_L |-> Int2R(40), rect_W |-> Int2R(25)]
    ELSE IF s = "Oval" THEN [oval_major |-> Int2R(40), oval_minor |-> Int2R(25)]
    ELSE IF m = "Equilateral" THEN [tri_side |-> Int2R(25)]
    ELSE [tri_a |-> Int2R(30), tri_b |-> Int2R(40), tri_c |-> Int2R(50)]

\* the key of loaded_inputs a dimension widget reads its default from
InputKey(widget) ==
    CASE widget \in {"circle_OD", "square_OD"} -> "OD"
      [] widget = "rect_L" -> "L"
      [] widget = "rect_W" -> "W"
      [] widget = "oval_major" -> "major"
      [] widget = "oval_minor" -> "minor"
      [] widget = "tri_side" -> "side"
      [] widget = "tri_a" -> "a"
      [] widget = "tri_b" -> "b"
      [] widget = "tri_c" -> "c"

\* value=float(loaded_inputs.get(key, default)): the values the dimension
\* widgets of shape s take when they are rendered anew
WidgetDefaults(s, m, loaded_inputs) ==
    [w \in DOMAIN DefaultInputs(s, m) |->
        IF InputKey(w) \in DOMAIN loaded_inputs
        THEN loaded_inputs[InputKey(w)]
        ELSE DefaultInputs(s, m)[w]]

\* The values a user enters (whole millimetres 1..MaxDimUI, never below the
\* widgets' min_value of 1.0; thickness never below its min_value of 0.1)
MaxDimUI == 3
DimsUI == {Int2R(k) : k \in 1..MaxDimUI}
ThicknessesUI == {Rat(1, 2), Int2R(1)}
DensitiesUI == {Int2R(DENSITY_MS)}

Init ==
    /\ call = NoCall
    /\ ret = NoRet
    /\ shape = "Circle"
    /\ tri_mode = "Equilateral"
    /\ inp = DefaultInputs("Circle", "Equilateral")
    /\ thk_input = Int2R(1)
    /\ den_input = Int2R(DENSITY_MS)
    /\ last_result = None
    /\ shown = NoMsg
    /\ saved = empty_saved
    /\ current = NoCurrent
    /\ sync = NoSync
    /\ result = None

\* st.selectbox("Select Shape", SHAPES, key="shape"), the user choosing among
\* the shapes of S
SelectShapeIn(S) ==
    \E s \in S \ {shape} :
        /\ PageRendered
        /\ shape' = s
        /\ tri_mode' = "Equilateral"
        /\ inp' = WidgetDefaults(s, "Equilateral", current.inputs)
        /\ shown' = NoMsg
        /\ call' = NoCall
        /\ ret' = NoRet
        /\ sync' = NoSync
        /\ result' = None
        /\ UNCHANGED <<thk_input, den_input, last_result, saved, current>>

SelectShape == SelectShapeIn(SHAPES)

\* st.radio("Triangle type", ..., key="tri_mode")
SelectTriMode ==
    /\ PageRendered
    /\ shape = "Triangle"
    /\ \E m \in TRI_MODES \ {tri_mode} :
        /\ tri_mode' = m
        /\ inp' = WidgetDefaults("Triangle", m, current.inputs)
    /\ shown' = NoMsg
    /\ call' = NoCall
    /\ ret' = NoRet
    /\ sync' = NoSync
    /\ result' = None
    /\ UNCHANGED <<shape, thk_input, den_input, last_result, saved, current>>

\* the user edits the number_input widgets of the form
EditInputs ==
    /\ PageRendered
    /\ inp' \in [DOMAIN inp -> DimsUI]
    /\ thk_input' \in ThicknessesUI
    /\ den_input' \in DensitiesUI
    /\ shown' = NoMsg
    /\ call' = NoCall
    /\ ret' = NoRet
    /\ sync' = NoSync
    /\ result' = None
    /\ UNCHANGED <<shape, tri_mode, last_result, saved, current>>

\* the dict stored in st.session_state.last_result
Result(s, inputs, w, area, extra, label) ==
    [shape |-> s, inputs |-> inputs, thickness |-> thk_input,
     density |-> den_input, weight |-> w, area_mm2 |-> area,
     extra |-> extra, dimensions_str |-> label]

\* an f-string: its format and the values formatted into it
Label(fmt, vals) == [fmt |-> fmt, vals |-> vals]

Success(w) == [kind |-> "success", value |-> w]

CalculateCircle ==
    LET OD == inp["circle_OD"]
        r == weight_circle(OD, thk_input, den_input)
    IN  /\ shape = "Circle"
        /\ call' = [fn |-> "weight_circle", args |-> <<OD, thk_input, den_input>>]
        /\ ret' = r
        /\ last_result' = Result("Circle", [OD |-> OD], r[1], r[2],
                                 [ID |-> r[3], mother_OD |-> OD],
                                 Label("OD {} x t {} mm", <<OD, thk_input>>))
        /\ shown' = Success(r[1])

CalculateSquare ==
    LET OD == inp["square_OD"]
        r == weight_square(OD, thk_input, den_input)
        mp_od == mother_od_from_perimeter("Square", [OD |-> OD])
    IN  /\ shape = "Square"
        /\ call' = [fn |-> "weight_square", args |-> <<OD, thk_input, den_input>>]
        /\ ret' = r
        /\ last_result' = Result("Square", [OD |-> OD], r[1], r[2],
                                 [mother_OD |-> mp_od],
                                 Label("{} x {} x t {} mm", <<OD, OD, thk_input>>))
        /\ shown' = Success(r[1])

CalculateRectangle ==
    LET L == inp["rect_L"]
        W == inp["rect_W"]
        r == weight_rectangle(L, W, thk_input, den_input)
        mp_od == mother_od_from_perimeter("Rectangle", [L |-> L, W |-> W])
    IN  /\ shape = "Rectangle"
        /\ call' = [fn |-> "weight_rectangle", args |-> <<L, W, thk_input, den_input>>]
        /\ ret' = r
        /\ last_result' = Result("Rectangle", [L |-> L, W |-> W], r[1], r[2],
                                 [mother_OD |-> mp_od],
                                 Label("{} x {} x t {} mm", <<L, W, thk_input>>))
        /\ shown' = Success(r[1])

CalculateOval ==
    LET major == inp["oval_major"]
        minor == inp["oval_minor"]
        r == weight_oval(major, minor, thk_input, den_input)
        mp_od == mother_od_from_perimeter("Oval", [major |-> major, minor |-> minor])
    IN  /\ shape = "Oval"
        /\ call' = [fn |-> "weight_oval", args |-> <<major, minor, thk_input, den_input>>]
        /\ ret' = r
        /\ last_result' = Result("Oval", [major |-> major, minor |-> minor], r[1], r[2],
                                 [mother_OD |-> mp_od],
                                 Label("{} x {} x t {} mm", <<major, minor, thk_input>>))
        /\ shown' = Success(r[1])

CalculateTriangleEquilateral ==
    LET a == inp["tri_side"]
        r == weight_triangle_equilateral(a, thk_input, den_input)
        mp_od == mother_od_from_perimeter("Triangle", [side |-> a])
    IN  /\ shape = "Triangle"
        /\ tri_mode = "Equilateral"
        /\ call' = [fn |-> "weight_triangle_equilateral",
                    args |-> <<a, thk_input, den_input>>]
        /\ ret' = r
        /\ last_result' = Result("Triangle", [side |-> a, mode |-> "Equilateral"],
                                 r[1], r[2], [mother_OD |-> mp_od],
                                 Label("Equilateral {} x t {} mm", <<a, thk_input>>))
        /\ shown' = Success(r[1])

\* the two error messages with the test on r inverted
TriangleError_inverted(r) ==
    IF r # Zero
    THEN [kind |-> "error_triangle_inequality", value |-> Zero]
    ELSE [kind |-> "error_thickness_too_large", value |-> r]

\* if r == 0.0: st.error("Invalid triangle sides ...")
\* else: st.error(f"Thickness too large. ... inradius r = {r:.3f} mm.")
TriangleError(r) ==
    IF r = Zero
    THEN [kind |-> "error_triangle_inequality", value |-> Zero]
    ELSE [kind |-> "error_thickness_too_large", value |-> r]

\* the custom triangle storing a record on its Invalid outcomes as well
CalculateTriangleCustom_stores_invalid ==
    LET a == inp["tri_a"]
        b == inp["tri_b"]
        c == inp["tri_c"]
        r == weight_triangle_general(a, b, c, thk_input, den_input)
        mp_od == mother_od_from_perimeter("Triangle", [a |-> a, b |-> b, c |-> c])
    IN  /\ shape = "Triangle"
        /\ tri_mode = "Custom"
        /\ call' = [fn |-> "weight_triangle_general",
                    args |-> <<a, b, c, thk_input, den_input>>]
        /\ ret' = r
        /\ last_result' = Result("Triangle",
                                 [a |-> a, b |-> b, c |-> c, mode |-> "Custom"],
                                 r[1], r[2],
                                 [mother_OD |-> mp_od, inradius |-> r[3]],
                                 Label("Sides {}, {}, {} x t {} mm", <<a, b, c, thk_input>>))
        /\ shown' = IF r[1] = Zero /\ r[2] = Zero THEN TriangleError(r[3])
                    ELSE Success(r[1])

CalculateTriangleCustom ==
    LET a == inp["tri_a"]
        b == inp["tri_b"]
        c == inp["tri_c"]
        r == weight_triangle_general(a, b, c, thk_input, den_input)
        mp_od == mother_od_from_perimeter("Triangle", [a |-> a, b |-> b, c |-> c])
    IN  /\ shape = "Triangle"
        /\ tri_mode = "Custom"
        /\ call' = [fn |-> "weight_triangle_general",
                    args |-> <<a, b, c, thk_input, den_input>>]
        /\ ret' = r
        /\ IF r[1] = Zero /\ r[2] = Zero
           THEN /\ shown' = TriangleError(r[3])
                /\ UNCHANGED last_result
           ELSE /\ last_result' = Result("Triangle",
                                         [a |-> a, b |-> b, c |-> c, mode |-> "Custom"],
                                         r[1], r[2],
                                         [mother_OD |-> mp_od, inradius |-> r[3]],
                                         Label("Sides {}, {}, {} x t {} mm", <<a, b, c, thk_input>>))
                /\ shown' = Success(r[1])

\* if st.button("Calculate", type="primary"):
Calculate ==
    /\ PageRendered
    /\ \/ CalculateCircle
       \/ CalculateSquare
       \/ CalculateRectangle
       \/ CalculateOval
       \/ CalculateTriangleEquilateral
       \/ CalculateTriangleCustom
    /\ sync' = NoSync
    /\ result' = None
    /\ UNCHANGED <<shape, tri_mode, inp, thk_input, den_input, saved, current>>

Next ==
    \/ SelectShape
    \/ SelectTriMode
    \/ EditInputs
    \/ Calculate

Spec == Init /\ [][Next]_vars

(***************************************************************************)
(* SessionSpec: the session of app.py with the sidebar and the Save panel. *)
(* The user works with the shapes of ShapesSession; the dimension widgets  *)
(* keep their defaults or take loaded values; the user edits the           *)
(* thickness.                                                              *)
(***************************************************************************)
MaxSaved == 2
ShapesSession == {"Circle", "Triangle"}
ThicknessesSession == {Int2R(1), Int2R(13)}
SidesCSession == {Int2R(50), Int2R(80)}

SelectShapeSession == SelectShapeIn(ShapesSession)

SavedCount == Len(saved["Circle"]) + Len(saved["Square"]) + Len(saved["Rectangle"])
              + Len(saved["Oval"]) + Len(saved["Triangle"])

\* the user edits the Wall Thickness widget
EditThickness ==
    /\ PageRendered
    /\ thk_input' \in ThicknessesSession \ {thk_input}
    /\ shown' = NoMsg
    /\ call' = NoCall
    /\ ret' = NoRet
    /\ sync' = NoSync
    /\ result' = None
    /\ UNCHANGED <<shape, tri_mode, inp, den_input, last_result, saved, current>>

\* the user edits Side c of the custom triangle
EditSideC ==
    /\ PageRendered
    /\ shape = "Triangle"
    /\ tri_mode = "Custom"
    /\ \E c \in SidesCSession \ {inp["tri_c"]} : inp' = [inp EXCEPT !["tri_c"] = c]
    /\ shown' = NoMsg
    /\ call' = NoCall
    /\ ret' = NoRet
    /\ sync' = NoSync
    /\ result' = None
    /\ UNCHANGED <<shape, tri_mode, thk_input, den_input, last_result, saved, current>>

\* default_name = f"{last_result['shape']} | {last_result['dimensions_str']}"
DefaultName(res) == Label("{} | {}", <<Label(res.shape, <<>>), res.dimensions_str>>)

\* the text of the Name field when Save is clicked: the user keeps the default
SaveNames(res) == {DefaultName(res)}

\* record = dict(last_result); record["name"] = save_name
Record(res, save_name) ==
    [f \in DOMAIN res \cup {"name"} |-> IF f = "name" THEN save_name ELSE res[f]]

\* the push: no token, (True, msg), (False, msg), or requests raises
GithubOutcomes == {"no_token", "ok", "failed", "raised"}

\* if st.session_state.last_result: the Save panel is rendered
SavePanelOffered == PageRendered /\ last_result # None

\* if st.button("Save", key="save_btn", type="primary"):
\* the record is appended before the writes; st.rerun() or the exception of
\* the push ends the run
Save ==
    /\ SavePanelOffered
    /\ SavedCount < MaxSaved
    /\ \E save_name \in SaveNames(last_result) :
         saved' = [saved EXCEPT ![last_result.shape] =
                      Append(@, Record(last_result, save_name))]
    /\ \E g \in GithubOutcomes : sync' = [by |-> "save", github |-> g]
    /\ shown' = NoMsg
    /\ call' = NoCall
    /\ ret' = NoRet
    /\ result' = None
    /\ UNCHANGED <<shape, tri_mode, inp, thk_input, den_input, last_result, current>>

\* if st.button("Load", key=f"load_{s}_{idx}"):
\* the handler runs before the widgets are instantiated.  A widget whose
\* value= argument differs from the one of the previous run is a new widget
\* and takes that value; one rendered with the same arguments keeps its state.
Load ==
    \E s \in SHAPES :
      \E idx \in 1..Len(saved[s]) :
        LET item == saved[s][idx]
            m == IF s = "Triangle" /\ shape = "Triangle" THEN tri_mode ELSE "Equilateral"
            old == WidgetDefaults(shape, tri_mode, current.inputs)
            new == WidgetDefaults(s, m, item.inputs)
        IN  /\ PageRendered
            /\ shape' = s
            /\ tri_mode' = m
            /\ current' = [inputs |-> item.inputs, thickness |-> item.thickness,
                           density |-> item.density]
            /\ inp' = IF s = shape
                      THEN [w \in DOMAIN new |-> IF new[w] = old[w] THEN inp[w] ELSE new[w]]
                      ELSE new
            /\ thk_input' = IF item.thickness = current.thickness
                            THEN thk_input ELSE item.thickness
            /\ den_input' = IF item.density = current.density
                            THEN den_input ELSE item.density
            /\ shown' = NoMsg
            /\ call' = NoCall
            /\ ret' = NoRet
            /\ sync' = NoSync
            /\ result' = None
            /\ UNCHANGED <<last_result, saved>>

\* list.pop(idx)
Pop(list, idx) == [i \in 1..(Len(list) - 1) |-> IF i < idx THEN list[i] ELSE list[i + 1]]

\* if st.button("\U0001F5D1", key=f"del_{s}_{idx}"):
\* the handler runs in the sidebar, before the form is rendered; st.rerun()
\* renders the page, an exception of the push leaves the main area unrendered.
\* The run that st.rerun() ends has rendered none of the form's widgets:
\* Streamlit either keeps their state or, counting the run as complete, drops
\* it, and the rerun renders them with their value= arguments.
DeleteWith(outcomes) ==
    /\ PageRendered
    /\ \E s \in SHAPES :
         \E idx \in 1..Len(saved[s]) :
           saved' = [saved EXCEPT ![s] = Pop(@, idx)]
    /\ \E g \in outcomes : sync' = [by |-> "delete", github |-> g]
    /\ \/ UNCHANGED <<shape, tri_mode, inp, thk_input, den_input>>
       \/ /\ sync'.github # "raised"
          /\ shape' = "Circle"
          /\ tri_mode' = "Equilateral"
          /\ inp' = WidgetDefaults("Circle", "Equilateral", current.inputs)
          /\ thk_input' = current.thickness
          /\ den_input' = current.density
    /\ shown' = NoMsg
    /\ call' = NoCall
    /\ ret' = NoRet
    /\ result' = None
    /\ UNCHANGED <<last_result, current>>

Delete == DeleteWith(GithubOutcomes)

\* the user reruns the script (Rerun in the app menu): no button is clicked
Rerun ==
    /\ shown' = NoMsg
    /\ call' = NoCall
    /\ ret' = NoRet
    /\ sync' = NoSync
    /\ result' = None
    /\ UNCHANGED <<shape, tri_mode, inp, thk_input, den_input, last_result,
                   saved, current>>

SessionNext ==
    \/ SelectShapeSession
    \/ SelectTriMode
    \/ EditThickness
    \/ EditSideC
    \/ Calculate
    \/ Save
    \/ Load
    \/ Delete
    \/ Rerun

SessionSpec == Init /\ [][SessionNext]_vars

(***************************************************************************)
(* FnSpec: one call of one calculator on an input drawn from Calls.        *)
(***************************************************************************)
FnInit ==
    /\ call \in Calls
    /\ ret = NoRet
    /\ shape = "Circle"
    /\ tri_mode = "Equilateral"
    /\ inp = DefaultInputs("Circle", "Equilateral")
    /\ thk_input = Int2R(1)
    /\ den_input = Int2R(DENSITY_MS)
    /\ last_result = None
    /\ shown = NoMsg
    /\ saved = empty_saved
    /\ current = NoCurrent
    /\ sync = NoSync
    /\ result = None

Pending(f) == call.fn = f /\ ret = NoRet

Call_weight_circle ==
    /\ Pending("weight_circle")
    /\ ret' = weight_circle(call.args[1], call.args[2], call.args[3])
    /\ UNCHANGED <<call, uivars>>

Call_weight_square ==
    /\ Pending("weight_square")
    /\ ret' = weight_square(call.args[1], call.args[2], call.args[3])
    /\ UNCHANGED <<call, uivars>>

Call_weight_rectangle ==
    /\ Pending("weight_rectangle")
    /\ ret' = weight_rectangle(call.args[1], call.args[2], call.args[3], call.args[4])
    /\ UNCHANGED <<call, uivars>>

Call_weight_oval ==
    /\ Pending("weight_oval")
    /\ ret' = weight_oval(call.args[1], call.args[2], call.args[3], call.args[4])
    /\ UNCHANGED <<call, uivars>>

Call_weight_triangle_equilateral ==
    /\ Pending("weight_triangle_equilateral")
    /\ ret' = weight_triangle_equilateral(call.args[1], call.args[2], call.args[3])
    /\ UNCHANGED <<call, uivars>>

Call_weight_triangle_general ==
    /\ Pending("weight_triangle_general")
    /\ ret' = weight_triangle_general(call.args[1], call.args[2], call.args[3],
                                      call.args[4], call.args[5])
    /\ UNCHANGED <<call, uivars>>

FnNext ==
    \/ Call_weight_circle
    \/ Call_weight_square
    \/ Call_weight_rectangle
    \/ Call_weight_oval
    \/ Call_weight_triangle_equilateral
    \/ Call_weight_triangle_general

FnSpec == FnInit /\ [][FnNext]_vars

Returned(f) == call.fn = f /\ ret # NoRet

(***************************************************************************)
(* MotherSpec: one call of mother_od_from_perimeter on a shape name and an *)
(* inputs dict holding the values the widgets admit (all > 0).             *)
(***************************************************************************)
PosHalves(m) == {Rat(k, 2) : k \in 1..m}

MotherCalls ==
    [fn : {"mother_od_from_perimeter"},
     args : ({"Circle", "Square"} \X [{"OD"} -> PosHalves(MaxOD2)])
            \cup ({"Rectangle"} \X [{"L", "W"} -> PosHalves(MaxRect2)])
            \cup ({"Oval"} \X [{"major", "minor"} -> PosHalves(MaxRect2)])
            \cup ({"Triangle"} \X [{"side"} -> PosHalves(MaxOD2)])
            \cup ({"Triangle"} \X [{"a", "b", "c"} -> PosHalves(MaxSide2)])]

MotherInit ==
    /\ call \in MotherCalls
    /\ ret = NoRet
    /\ shape = "Circle"
    /\ tri_mode = "Equilateral"
    /\ inp = DefaultInputs("Circle", "Equilateral")
    /\ thk_input = Int2R(1)
    /\ den_input = Int2R(DENSITY_MS)
    /\ last_result = None
    /\ shown = NoMsg
    /\ saved = empty_saved
    /\ current = NoCurrent
    /\ sync = NoSync
    /\ result = None

Call_mother_od_from_perimeter ==
    /\ Pending("mother_od_from_perimeter")
    /\ ret' = <<mother_od_from_perimeter(call.args[1], call.args[2])>>
    /\ UNCHANGED <<call, uivars>>

MotherNext == Call_mother_od_from_perimeter

MotherSpec == MotherInit /\ [][MotherNext]_vars

(***************************************************************************)
(* CallSpec: one call of one function of app.py, a calculator or           *)
(* mother_od_from_perimeter.                                               *)
(***************************************************************************)
CallInit == FnInit \/ MotherInit

CallNext == FnNext \/ MotherNext

CallSpec == CallInit /\ [][CallNext]_vars

\* C21: a square is the rectangle with L = W = OD.  weight_square(OD, t, d)
\* and weight_rectangle(OD, OD, t, d) are Invalid for the same inputs and
\* otherwise return the same wall area OD^2 - (OD - 2t)^2 and the same mass;
\* mother_od_from_perimeter gives the same diameter for Square {OD} and
\* Rectangle {L: OD, W: OD}.
C21_SquareIsRectangle ==
    /\ Returned("weight_square") =>
         LET OD == call.args[1]
             t == call.args[2]
             rect == weight_rectangle(OD, OD, t, call.args[3])
             ID == Sub(OD, Mul(Int2R(2), t))
         IN  /\ ret = rect
             /\ Lt(ID, Zero) => ret = <<Zero, Zero>> /\ rect = <<Zero, Zero>>
             /\ ~Lt(ID, Zero) =>
                  /\ ret[2] = Sub(Sq(OD), Sq(ID))
                  /\ rect[2] = Sub(Sq(OD), Sq(ID))
                  /\ ret[1] = rect[1]
    /\ (Returned("weight_rectangle") /\ call.args[1] = call.args[2]) =>
         ret = weight_square(call.args[1], call.args[3], call.args[4])
    /\ (Returned("mother_od_from_perimeter") /\ call.args[1] = "Square") =>
         ret[1] = mother_od_from_perimeter(
                      "Rectangle",
                      [k \in {"L", "W"} |-> call.args[2]["OD"]])
    /\ (Returned("mother_od_from_perimeter") /\ call.args[1] = "Rectangle"
          /\ call.args[2]["L"] = call.args[2]["W"]) =>
         ret[1] = mother_od_from_perimeter("Square", [OD |-> call.args[2]["L"]])

\* weight_square(25, 1, 7850) returned the 96 mm2 and 0.7536 kg/m that
\* weight_rectangle(25, 25, 1, 7850) returns
C21_Witness ==
    /\ Returned("weight_square")
    /\ call.args = <<Int2R(25), Int2R(1), Int2R(DENSITY_MS)>>
    /\ ret = <<Rat(471, 625), Int2R(96)>>
    /\ ret = weight_rectangle(Int2R(25), Int2R(25), Int2R(1), Int2R(DENSITY_MS))

(***************************************************************************)
(* DummySpec: the earlier revision, src/dummy.py.  Either a session of the *)
(* app (same sidebar and form, one Triangle mode, the result a local of    *)
(* the script run and the Save area inside the Calculate block), or one    *)
(* direct call of mother_pipe_diameter.                                    *)
(***************************************************************************)
DirectCall == call.fn = "mother_pipe_diameter"

\* "extra": {"mother_OD": mp_od, "mother_ID": mp_od - 2 * t}
DummyExtra(mp_od, t) ==
    [mother_OD |-> mp_od, mother_ID |-> PiSub(mp_od, PiOfReal(Mul(Int2R(2), t)))]

DummyCalculateCircle ==
    LET OD == inp["circle_OD"]
        r == dummy_weight_circle(OD, thk_input, den_input)
    IN  /\ shape = "Circle"
        /\ call' = [fn |-> "weight_circle", args |-> <<OD, thk_input, den_input>>]
        /\ ret' = r
        /\ result' = Result("Circle", [OD |-> OD], r[1], r[2], [ID |-> r[3]],
                            Label("OD {} x t {} mm", <<OD, thk_input>>))
        /\ shown' = Success(r[1])

DummyCalculateSquare ==
    LET OD == inp["square_OD"]
        r == dummy_weight_square(OD, thk_input, den_input)
        mp_od == mother_pipe_diameter(r[2], thk_input)
    IN  /\ shape = "Square"
        /\ call' = [fn |-> "weight_square", args |-> <<OD, thk_input, den_input>>]
        /\ ret' = r
        /\ result' = Result("Square", [OD |-> OD], r[1], r[2],
                            DummyExtra(mp_od, thk_input),
                            Label("{} x {} x t {} mm", <<OD, OD, thk_input>>))
        /\ shown' = Success(r[1])

DummyCalculateRectangle ==
    LET L == inp["rect_L"]
        W == inp["rect_W"]
        r == dummy_weight_rectangle(L, W, thk_input, den_input)
        mp_od == mother_pipe_diameter(r[2], thk_input)
    IN  /\ shape = "Rectangle"
        /\ call' = [fn |-> "weight_rectangle", args |-> <<L, W, thk_input, den_input>>]
        /\ ret' = r
        /\ result' = Result("Rectangle", [L |-> L, W |-> W], r[1], r[2],
                            DummyExtra(mp_od, thk_input),
                            Label("{} x {} x t {} mm", <<L, W, thk_input>>))
        /\ shown' = Success(r[1])

DummyCalculateOval ==
    LET major == inp["oval_major"]
        minor == inp["oval_minor"]
        r == dummy_weight_oval(major, minor, thk_input, den_input)
        mp_od == mother_pipe_diameter(r[2], thk_input)
    IN  /\ shape = "Oval"
        /\ call' = [fn |-> "weight_oval", args |-> <<major, minor, thk_input, den_input>>]
        /\ ret' = r
        /\ result' = Result("Oval", [major |-> major, minor |-> minor], r[1], r[2],
                            DummyExtra(mp_od, thk_input),
                            Label("{} x {} x t {} mm", <<major, minor, thk_input>>))
        /\ shown' = Success(r[1])

DummyCalculateTriangle ==
    LET side == inp["tri_side"]
        r == weight_triangle(side, thk_input, den_input)
        mp_od == mother_pipe_diameter(r[2], thk_input)
    IN  /\ shape = "Triangle"
        /\ call' = [fn |-> "weight_triangle", args |-> <<side, thk_input, den_input>>]
        /\ ret' = r
        /\ result' = Result("Triangle", [side |-> side], r[1], r[2],
                            DummyExtra(mp_od, thk_input),
                            Label("Equilateral {} x t {} mm", <<side, thk_input>>))
        /\ shown' = Success(r[1])

\* if st.button("Calculate", type="primary"): result = {} ...
DummyCalculate ==
    /\ ~DirectCall
    /\ \/ DummyCalculateCircle
       \/ DummyCalculateSquare
       \/ DummyCalculateRectangle
       \/ DummyCalculateOval
       \/ DummyCalculateTriangle
    /\ sync' = NoSync
    /\ UNCHANGED <<shape, tri_mode, inp, thk_input, den_input, last_result,
                   saved, current>>

\* A click on the Save button, which the run of a click on Calculate
\* rendered.  The click reruns the script; in that run st.button("Calculate")
\* is False, so the Calculate block, and the Save area inside it, is skipped.
DummyClickSave ==
    /\ result # None
    /\ result' = None
    /\ shown' = NoMsg
    /\ call' = NoCall
    /\ ret' = NoRet
    /\ sync' = NoSync
    /\ UNCHANGED <<shape, tri_mode, inp, thk_input, den_input, last_result,
                   saved, current>>

\* write_github returns (ok, msg, info): it catches the exceptions of the push
DummyGithubOutcomes == {"no_token", "ok", "failed"}

DummyDelete == DeleteWith(DummyGithubOutcomes)

\* a record of an earlier session, as the Save area builds it
StoredSquare ==
    LET OD == Int2R(30)
        t == Int2R(2)
        r == dummy_weight_square(OD, t, Int2R(DENSITY_MS))
        label == Label("{} x {} x t {} mm", <<OD, OD, t>>)
    IN  [name |-> Label("{} | {}", <<Label("Square", <<>>), label>>),
         shape |-> "Square", inputs |-> [OD |-> OD], thickness |-> t,
         density |-> Int2R(DENSITY_MS), weight |-> r[1], area_mm2 |-> r[2],
         extra |-> DummyExtra(mother_pipe_diameter(r[2], t), t),
         dimensions_str |-> label]

\* load_saved(): nothing found, or the records a saved_calcs.json holds
DummyStores == {empty_saved, [empty_saved EXCEPT !["Square"] = <<StoredSquare>>]}

\* the arguments of the direct calls: areas c + k*pi, thicknesses with <= 0
DummyCalls ==
    [fn : {"mother_pipe_diameter"},
     args : {PiVal(c, k, Zero) : c \in PosHalves(MaxRect2), k \in PosHalves(MaxRect2)}
            \X Thicknesses]

DummyInit ==
    /\ \/ call = NoCall /\ saved \in DummyStores
       \/ call \in DummyCalls /\ saved = empty_saved
    /\ ret = NoRet
    /\ shape = "Circle"
    /\ tri_mode = "Equilateral"
    /\ inp = DefaultInputs("Circle", "Equilateral")
    /\ thk_input = Int2R(1)
    /\ den_input = Int2R(DENSITY_MS)
    /\ last_result = None
    /\ shown = NoMsg
    /\ current = NoCurrent
    /\ sync = NoSync
    /\ result = None

Call_mother_pipe_diameter ==
    /\ Pending("mother_pipe_diameter")
    /\ ret' = <<mother_pipe_diameter(call.args[1], call.args[2])>>
    /\ UNCHANGED <<call, uivars>>

\* shape = st.selectbox("Select Shape", SHAPES, key="shape")
DummySelectShape == ~DirectCall /\ SelectShape

\* thickness = st.number_input("Wall Thickness (mm)", ..., key="thk_input")
DummyEditThickness == ~DirectCall /\ EditThickness

DummyNext ==
    \/ Call_mother_pipe_diameter
    \/ DummySelectShape
    \/ DummyEditThickness
    \/ DummyCalculate
    \/ DummyClickSave
    \/ Load
    \/ DummyDelete

DummySpec == DummyInit /\ [][DummyNext]_vars

(***************************************************************************)
(* Properties of the earlier revision (DummySpec).                         *)
(***************************************************************************)
\* area/(pi*thickness) + thickness for an area c + k*pi, written out
AreaEquivalentOD(area_mm2, thickness) ==
    PiVal(Add(Div(area_mm2.k, thickness), thickness), Zero,
          Div(area_mm2.c, thickness))

\* C15: mother_pipe_diameter(area, thickness) returns
\* area/(pi*thickness) + thickness for thickness > 0 and 0.0 for
\* thickness <= 0; every non-circular result stores mother_OD = that value of
\* its own wall area and thickness, and mother_ID = mother_OD - 2*thickness.
C15_MotherPipeDiameter ==
    /\ Returned("mother_pipe_diameter") =>
         ret[1] = IF Gt(call.args[2], Zero)
                  THEN AreaEquivalentOD(call.args[1], call.args[2])
                  ELSE PiZero
    /\ (result # None /\ result.shape # "Circle") =>
         /\ result.area_mm2 = ret[2]
         /\ result.thickness = thk_input
         /\ result.extra.mother_OD =
                AreaEquivalentOD(result.area_mm2, result.thickness)
         /\ result.extra.mother_ID =
                PiSub(result.extra.mother_OD,
                      PiOfReal(Mul(Int2R(2), result.thickness)))

\* a Square 25 x t 1 stores the mother pipe of its own 96 mm2 wall:
\* OD = 1 + 96/pi, ID = -1 + 96/pi
C15_Witness ==
    /\ result # None
    /\ result.shape = "Square"
    /\ result.thickness = Int2R(1)
    /\ result.area_mm2 = PiOfReal(Int2R(96))
    /\ result.extra.mother_OD = PiVal(Int2R(1), Zero, Int2R(96))
    /\ result.extra.mother_ID = PiVal(Int2R(-1), Zero, Int2R(96))

\* C18: after a click on Calculate has produced a result, a click on Save
\* appends the result's record, under the entered name, to
\* saved[result.shape], and writes and pushes the saved data.
C18_SaveAfterCalculate ==
    [][DummyClickSave =>
         /\ \E save_name \in SaveNames(result) :
              saved' = [saved EXCEPT ![result.shape] =
                                        Append(@, Record(result, save_name))]
         /\ sync'.by = "save"]_vars
(***************************************************************************)
(* Properties of the calculators, checked under FnSpec.                    *)
(***************************************************************************)
Arg(i) == call.args[i]
Density == call.args[Len(call.args)]
Two == Int2R(2)

Invalid2 == <<Zero, Zero>>
Invalid3 == <<Zero, Zero, Zero>>

\* C1: weight_circle returns (0, 0, 0) when ID = OD - 2*thickness < 0 and
\* otherwise area = (22/7)/4 * (OD^2 - ID^2) with ID as third component; for
\* every input but OD = thickness = 0 it returns (0, 0, 0) only when ID < 0.
\* (25, 1, 7850) gives
\* ID = 23 and area = 96*22/28; (2, 1.5, 7850) is Invalid.
C1_CircleContract ==
    Returned("weight_circle") =>
        LET OD == Arg(1)
            t  == Arg(2)
            ID == Sub(OD, Mul(Two, t))
        IN  /\ Lt(ID, Zero) => ret = Invalid3
            /\ ~Lt(ID, Zero) =>
                 /\ ret[2] = Div(Mul(Int2R(22), Sub(Sq(OD), Sq(ID))), Int2R(28))
                 /\ ret[3] = ID
            /\ (~(OD = Zero /\ t = Zero) /\ ret = Invalid3) => Lt(ID, Zero)
            /\ (OD = Int2R(25) /\ t = Int2R(1)) =>
                 ret[3] = Int2R(23) /\ ret[2] = Rat(96 * 22, 28)
            /\ (OD = Int2R(2) /\ t = Rat(3, 2)) => ret = Invalid3

C1_Witness ==
    /\ Returned("weight_circle")
    /\ Arg(1) = Int2R(25) /\ Arg(2) = Int2R(1) /\ Arg(3) = Int2R(DENSITY_MS)
    /\ ret[3] = Int2R(23)
    /\ ret[2] = Rat(528, 7)

\* the claims' triangle quantities, from the sides of the call
SemiPerimeter == Div(Add(Add(Arg(1), Arg(2)), Arg(3)), Two)
HeronRadicand ==
    Mul(Mul(Mul(SemiPerimeter, Sub(SemiPerimeter, Arg(1))),
            Sub(SemiPerimeter, Arg(2))), Sub(SemiPerimeter, Arg(3)))
StrictTriangle ==
    /\ Gt(Add(Arg(1), Arg(2)), Arg(3))
    /\ Gt(Add(Arg(2), Arg(3)), Arg(1))
    /\ Gt(Add(Arg(3), Arg(1)), Arg(2))
\* thickness < r, r = A0/s, stated without the square root: t*s < A0
BelowInradius(t) ==
    \/ Le(t, Zero)
    \/ Lt(Mul(Sq(t), Sq(SemiPerimeter)), HeronRadicand)
\* x is the inradius: x > 0 and (x*s)^2 is the Heron radicand
IsInradius(x) ==
    /\ Gt(x, Zero)
    /\ Mul(Sq(x), Sq(SemiPerimeter)) = HeronRadicand
Is345 == Arg(1) = Int2R(3) /\ Arg(2) = Int2R(4) /\ Arg(3) = Int2R(5)

\* C2: for sides with the strict triangle inequality and 0 < t < r,
\* weight_triangle_general returns wall area t*P - t^2*(s^2/A0) and the
\* inradius r = A0/s; sides (3,4,5) with t = 0.5 give 4.5 and r = 1.
C2_TriangleWallArea ==
    (Returned("weight_triangle_general") /\ StrictTriangle
       /\ Gt(Arg(4), Zero) /\ BelowInradius(Arg(4))) =>
        LET t  == Arg(4)
            P  == Add(Add(Arg(1), Arg(2)), Arg(3))
            A0 == Sqrt(HeronRadicand)
        IN  /\ ret[2] = Sub(Mul(t, P), Mul(Sq(t), Div(Sq(SemiPerimeter), A0)))
            /\ IsInradius(ret[3])
            /\ (Is345 /\ t = Rat(1, 2)) => ret[2] = Rat(9, 2) /\ ret[3] = Int2R(1)

C2_Witness ==
    /\ Returned("weight_triangle_general")
    /\ Is345 /\ Arg(4) = Rat(1, 2)
    /\ ret[2] = Rat(9, 2) /\ ret[3] = Int2R(1)

\* C3: for a valid triangle every thickness >= r (thickness = r included)
\* returns zero mass, zero wall area and the nonzero inradius r.
C3_ThicknessRejected ==
    (Returned("weight_triangle_general") /\ StrictTriangle
       /\ ~BelowInradius(Arg(4))) =>
        /\ ret[1] = Zero
        /\ ret[2] = Zero
        /\ IsInradius(ret[3])
        /\ Is345 => ret[3] = Int2R(1)

C3_Witness ==
    /\ Returned("weight_triangle_general")
    /\ Is345 /\ Arg(4) = Int2R(1)
    /\ ret = <<Zero, Zero, Int2R(1)>>

C7_OvalContract ==
    Returned("weight_oval") =>
        LET a_o == Div(Arg(1), Two)
            b_o == Div(Arg(2), Two)
            t   == Arg(3)
            a_i == Sub(a_o, t)
            b_i == Sub(b_o, t)
        IN  /\ (Lt(a_i, Zero) \/ Lt(b_i, Zero)) => ret = Invalid2
            /\ (~Lt(a_i, Zero) /\ ~Lt(b_i, Zero)) =>
                 ret[2] = Mul(Rat(22, 7), Sub(Mul(a_o, b_o), Mul(a_i, b_i)))

\* minor >= 2*thickness but major < 2*thickness, all three positive
C7_Witness ==
    /\ Returned("weight_oval")
    /\ Gt(Arg(1), Zero) /\ Gt(Arg(3), Zero)
    /\ Ge(Arg(2), Mul(Two, Arg(3)))
    /\ Lt(Arg(1), Mul(Two, Arg(3)))
    /\ ret = Invalid2

\* C8: weight_rectangle returns (0, 0) when L - 2t < 0 or W - 2t < 0 and
\* otherwise area = L*W - (L - 2t)*(W - 2t); for a positive thickness it
\* returns (0, 0) only in the first case.
C8_RectangleContract ==
    Returned("weight_rectangle") =>
        LET L == Arg(1)
            W == Arg(2)
            t == Arg(3)
            degenerate == Lt(L, Mul(Two, t)) \/ Lt(W, Mul(Two, t))
        IN  /\ degenerate => ret = Invalid2
            /\ ~degenerate =>
                 ret[2] = Sub(Mul(L, W),
                              Mul(Sub(L, Mul(Two, t)), Sub(W, Mul(Two, t))))
            /\ (Gt(t, Zero) /\ ret = Invalid2) => degenerate

\* the width alone is too small
C8_Witness ==
    /\ Returned("weight_rectangle")
    /\ Gt(Arg(2), Zero)
    /\ Ge(Arg(1), Mul(Two, Arg(3)))
    /\ Lt(Arg(2), Mul(Two, Arg(3)))
    /\ ret = Invalid2

\* C9: weight_triangle_equilateral takes s_i = side - 2t/sin(60 degrees)
\* (= side - 4t/sqrt(3)), returns (0, 0) when s_i < 0 and otherwise
\* area = (sqrt(3)/4)*side^2 - (sqrt(3)/4)*s_i^2; for a positive thickness it
\* returns (0, 0) only when s_i < 0.
C9_EquilateralContract ==
    Returned("weight_triangle_equilateral") =>
        LET side == Arg(1)
            t    == Arg(2)
            rt3  == Sqrt(Int2R(3))
            s_i  == Sub(side, Div(Mul(Int2R(4), t), rt3))
            k    == Div(rt3, Int2R(4))
        IN  /\ Lt(s_i, Zero) => ret = Invalid2
            /\ ~Lt(s_i, Zero) =>
                 ret[2] = Sub(Mul(k, Sq(side)), Mul(k, Sq(s_i)))
            /\ (Gt(t, Zero) /\ ret = Invalid2) => Lt(s_i, Zero)

\* a valid hollow section: 0 < 4t/sqrt(3) < side, i.e. 16 t^2 < 3 side^2
C9_Witness ==
    /\ Returned("weight_triangle_equilateral")
    /\ Gt(Arg(1), Zero) /\ Gt(Arg(2), Zero)
    /\ Lt(Mul(Int2R(16), Sq(Arg(2))), Mul(Int2R(3), Sq(Arg(1))))
    /\ ret[2] # Zero
    /\ ret[2].q # 0

\* C10: every calculator returns mass = wall area * 1e-6 * density, on valid
\* and on Invalid results.
C10_MassFromArea ==
    ret # NoRet => ret[1] = Mul(ret[2], Rat(Density.p, 1000000))

C10_Witness ==
    /\ Returned("weight_square")
    /\ Density = Int2R(DENSITY_MS)
    /\ ret[2] = Int2R(96)
    /\ ret[1] = Rat(96 * 7850, 1000000)

\* every argument of the call (dimensions, thickness, density) is > 0
AllPositive == \A i \in 1..Len(call.args) : Gt(Arg(i), Zero)

\* C11: every calculator called with all dimensions, the thickness and the
\* density > 0 returns a wall area >= 0 and a mass >= 0.
C11_NonNegative ==
    (ret # NoRet /\ AllPositive) =>
        /\ Ge(ret[1], Zero)
        /\ Ge(ret[2], Zero)

\* a square whose raw subtraction OD^2 - ID^2 is negative returns (0, 0)
C11_Witness ==
    /\ Returned("weight_square")
    /\ AllPositive
    /\ Lt(Sub(Sq(Arg(1)), Sq(Sub(Arg(1), Mul(Two, Arg(2))))), Zero)
    /\ ret = Invalid2

\* C12: a calculator called with a dimension, the thickness or the density
\* <= 0 rejects the input: it returns neither a nonzero wall area nor a
\* nonzero mass.
C12_NonPositiveRejected ==
    (ret # NoRet /\ ~AllPositive) =>
        /\ ret[1] = Zero
        /\ ret[2] = Zero

\* C16: every formula of the geometry module that depends on pi uses the one
\* constant PI = 22/7: the circle area is PI/4 * (OD^2 - ID^2), the oval area
\* PI * (a_o*b_o - a_i*b_i), and the angle whose sine gives the equilateral
\* inner side is 60 * PI / 180.
C16_SinglePi ==
    /\ PI = Rat(22, 7)
    /\ (Returned("weight_circle") /\ ret # Invalid3) =>
         Mul(Int2R(4), ret[2])
           = Mul(PI, Sub(Sq(Arg(1)), Sq(Sub(Arg(1), Mul(Two, Arg(2))))))
    /\ (Returned("weight_oval") /\ ret # Invalid2) =>
         ret[2] = Mul(PI, Sub(Mul(Div(Arg(1), Two), Div(Arg(2), Two)),
                              Mul(Sub(Div(Arg(1), Two), Arg(3)),
                                  Sub(Div(Arg(2), Two), Arg(3)))))
    /\ Returned("weight_triangle_equilateral") =>
         Radians(Int2R(60)) = PiOfReal(Div(Mul(Int2R(60), PI), Int2R(180)))

\* C20: for side, thickness and density > 0, weight_triangle_equilateral(side,
\* t, d) is valid exactly when weight_triangle_general(side, side, side, t, d)
\* is valid, and when valid both return the same wall area and the same mass.
C20_TriangleCalculatorsAgree ==
    (Returned("weight_triangle_equilateral") /\ AllPositive) =>
        LET g == weight_triangle_general(Arg(1), Arg(1), Arg(1), Arg(2), Arg(3))
            valid_e == ~(ret[1] = Zero /\ ret[2] = Zero)
            valid_g == ~(g[1] = Zero /\ g[2] = Zero)
        IN  /\ valid_e <=> valid_g
            /\ (valid_e /\ valid_g) => (ret[2] = g[2] /\ ret[1] = g[1])

\* C22: in weight_triangle_general, for every valid triangle and every
\* thickness t with 0 < t < inradius r, the closed-form wall area
\* t*P - t^2*(s^2/A0) is strictly positive and at most the outer area A0, so
\* the wall-area sign check rejects nothing that passed the inradius check
\* with positive thickness: the call returns that wall area.
C22_WallAreaWithinOuter ==
    (/\ Returned("weight_triangle_general")
     /\ StrictTriangle
     /\ Gt(HeronRadicand, Zero)
     /\ Gt(Arg(4), Zero)
     /\ BelowInradius(Arg(4))) =>
        LET t == Arg(4)
            P == Mul(Two, SemiPerimeter)
            A0 == Sqrt(HeronRadicand)
            wall == Sub(Mul(t, P), Mul(Sq(t), Div(Sq(SemiPerimeter), A0)))
        IN  /\ Gt(wall, Zero)
            /\ Le(wall, A0)
            /\ ret[2] = wall
            /\ ret[3] = Div(A0, SemiPerimeter)

\* the 3-4-5 triangle (A0 = 6, r = 1) with t = 0.5 keeps its wall of 4.5 mm2
C22_Witness ==
    /\ Returned("weight_triangle_general")
    /\ Arg(1) = Int2R(3) /\ Arg(2) = Int2R(4) /\ Arg(3) = Int2R(5)
    /\ Arg(4) = Rat(1, 2)
    /\ ret[2] = Rat(9, 2)
    /\ ret[3] = Int2R(1)

(***************************************************************************)
(* Properties of Calculate, checked under Spec.                            *)
(***************************************************************************)
\* the first precondition of the custom triangle that the inputs of the call
\* violate, in the order triangle inequality, Heron radicand > 0,
\* thickness < inradius, wall area > 0
FirstViolated ==
    IF ~StrictTriangle THEN "triangle_inequality"
    ELSE IF Le(HeronRadicand, Zero) THEN "heron"
    ELSE IF ~BelowInradius(Arg(4)) THEN "inradius"
    ELSE IF Le(Sub(Mul(Arg(4), Mul(Two, SemiPerimeter)),
                   Mul(Sq(Arg(4)), Div(Sq(SemiPerimeter), Sqrt(HeronRadicand)))),
               Zero)
         THEN "wall_area"
    ELSE "none"

InvalidRun == call # NoCall /\ ret[1] = Zero /\ ret[2] = Zero

\* C6: a Calculate whose section is Invalid shows an error instead of a
\* weight and holds no Invalid (zero) result record in last_result.
C6_InvalidReportedDistinctly ==
    InvalidRun =>
        /\ shown.kind \in {"error_triangle_inequality", "error_thickness_too_large"}
        /\ ~(last_result # None /\ last_result.weight = Zero
                                /\ last_result.area_mm2 = Zero)

\* the outer perimeter of the section a result record describes
OuterPerimeter(res) ==
    LET i == res.inputs
    IN  IF res.shape = "Square" THEN Mul(Int2R(4), i.OD)
        ELSE IF res.shape = "Rectangle" THEN Mul(Two, Add(i.L, i.W))
        ELSE IF res.shape = "Oval"
             THEN LET a == Div(i.major, Two)
                      b == Div(i.minor, Two)
                  IN  Mul(Rat(22, 7),
                          Sub(Mul(Int2R(3), Add(a, b)),
                              Sqrt(Mul(Add(Mul(Int2R(3), a), b),
                                       Add(a, Mul(Int2R(3), b))))))
        ELSE IF i.mode = "Equilateral" THEN Mul(Int2R(3), i.side)
        ELSE Add(Add(i.a, i.b), i.c)

\* C13: the mother_OD of every non-circular result record is P/(22/7), P the
\* outer perimeter of its shape; a Square of OD = 25 gives 100/(22/7) = 350/11.
C13_MotherODFromPerimeter ==
    (last_result # None /\ last_result.shape # "Circle") =>
        /\ last_result.extra.mother_OD
             = Div(OuterPerimeter(last_result), Rat(22, 7))
        /\ (last_result.shape = "Square" /\ last_result.inputs.OD = Int2R(25))
             => last_result.extra.mother_OD = Rat(350, 11)

C13_Witness ==
    /\ last_result # None
    /\ last_result.shape = "Square"
    /\ last_result.inputs.OD = Int2R(25)
    /\ last_result.extra.mother_OD = Rat(350, 11)

\* C14: for a Circle the perimeter-equivalence estimator gives the circle's
\* own OD: mother_od_from_perimeter("Circle", {"OD": OD}) returns OD, and the
\* mother_OD of a Circle result record is the record's input OD.
C14_CircleOwnOD ==
    /\ (Returned("mother_od_from_perimeter") /\ call.args[1] = "Circle")
         => ret[1] = call.args[2]["OD"]
    /\ (last_result # None /\ last_result.shape = "Circle")
         => last_result.extra.mother_OD = last_result.inputs.OD

(***************************************************************************)
(* Properties of the Save panel and the sidebar, checked under SessionSpec.*)
(***************************************************************************)
\* C17: in every script run in which last_result is set the Save panel is
\* offered, whatever Calculate, Save, Load and Delete clicks came before and
\* whether or not their GitHub push succeeded.
C17_SavePanelOffered == last_result # None => SavePanelOffered

\* the last record of a list
Last(list) == list[Len(list)]

\* C17, the effect of the click on Save: saved[last_result.shape] grows by one
\* record at its end, the record has the fields of last_result with their
\* values and a name, the other buckets and last_result are unchanged.
C17_SaveAppendsOne ==
    [][Save =>
        LET b == last_result.shape
        IN  /\ last_result # None
            /\ Len(saved'[b]) = Len(saved[b]) + 1
            /\ \A i \in 1..Len(saved[b]) : saved'[b][i] = saved[b][i]
            /\ DOMAIN Last(saved'[b]) = DOMAIN last_result \cup {"name"}
            /\ \A f \in DOMAIN last_result : Last(saved'[b])[f] = last_result[f]
            /\ \A s \in SHAPES \ {b} : saved'[s] = saved[s]
            /\ last_result' = last_result]_vars

\* the weight the calculator of a record's shape gives for the inputs,
\* thickness and density the record holds
WeightOf(rec) ==
    LET i == rec.inputs
        t == rec.thickness
        d == rec.density
    IN  IF rec.shape = "Circle" THEN weight_circle(i.OD, t, d)[1]
        ELSE IF rec.shape = "Square" THEN weight_square(i.OD, t, d)[1]
        ELSE IF rec.shape = "Rectangle" THEN weight_rectangle(i.L, i.W, t, d)[1]
        ELSE IF rec.shape = "Oval" THEN weight_oval(i.major, i.minor, t, d)[1]
        ELSE IF i.mode = "Equilateral" THEN weight_triangle_equilateral(i.side, t, d)[1]
        ELSE weight_triangle_general(i.a, i.b, i.c, t, d)[1]

\* the script run called weight_triangle_general and got an Invalid tuple
InvalidCustomRun ==
    /\ call.fn = "weight_triangle_general"
    /\ ret[1] = Zero
    /\ ret[2] = Zero

\* C19: a Calculate on a custom triangle that ends Invalid leaves last_result
\* and saved unchanged; last_result changes only in a run that shows the
\* weight of the call it made, and holds the shape, inputs, thickness and
\* density that give its weight; the record Save stores is last_result.
C19_InvalidCustomKeepsResult ==
    [][/\ InvalidCustomRun' => (last_result' = last_result /\ saved' = saved)
       /\ last_result' # last_result =>
            /\ shown'.kind = "success"
            /\ last_result'.weight = ret'[1]
            /\ last_result'.weight = WeightOf(last_result')
       /\ Save =>
            /\ \A f \in DOMAIN last_result :
                  Last(saved'[last_result.shape])[f] = last_result[f]
            /\ Last(saved'[last_result.shape]).weight
                  = WeightOf(Last(saved'[last_result.shape]))]_vars

\* an Invalid custom triangle is on the form, and its error on the page,
\* while last_result holds the Circle calculated before
C19_Witness ==
    /\ InvalidCustomRun
    /\ shown.kind = "error_triangle_inequality"
    /\ last_result # None
    /\ last_result.shape = "Circle"
    /\ shape = "Triangle"

=============================================================================
